---------------------------- MODULE Spec2Model ----------------------------
(***************************************************************************)
(* A model of stlutil.hpp: the binary STL reader (STLReader::STLReader)    *)
(* and the plane slicer (slice_polygons_at and its axis wrappers).         *)
(*                                                                         *)
(* SpecParse runs the constructor of STLReader over a file, one stream     *)
(* operation per step.  SpecSlice runs one call of a slicing entry point,  *)
(* one loop iteration per step.                                            *)
(*                                                                         *)
(* In the reader a float is its 32-bit pattern (the reader never           *)
(* interprets it).  In the slicer a float is an exact rational <<n, d>>;   *)
(* the inputs are small integers and halves, for which every float32 sum   *)
(* and product of the code is exact, and a float32 quotient lies in [0, 1) *)
(* exactly when the exact quotient does.                                   *)
(***************************************************************************)
EXTENDS Integers, Sequences, FiniteSets

VARIABLES
    \* ---- the file handed to STLReader (input)
    fileExists,     \* whether the path can be opened
    fileBytes,      \* the bytes of the file
    declN,          \* input: the triangle count the file was written with
    origHeader,     \* input: the header the file was written with
    origTris,       \* input: the triangles the file was written with
    \* ---- std::ifstream stlfile
    pos,            \* read position
    iostate,        \* subset of {"eofbit", "failbit", "badbit"}
    \* ---- STLReader
    header_,
    polygons_,
    valid,
    size,           \* the local uint32_t size
    pi,             \* index of the polygon being read (range-for position)
    pk,             \* index of the float being read within the polygon, 1..12
    pc,             \* position in the constructor
    \* ---- one call of a slicing entry point
    entry,          \* input: which entry point is called
    args,           \* input: its scalar arguments
    polygons,       \* input: the polygons argument
    plane,          \* a, b, c, d of slice_polygons_at
    res,            \* the local std::vector<STLSegment> res
    idx,            \* range-for position in polygons
    emitted,        \* history: emitted[i] = what iteration i pushed onto res
    spc             \* position in the call

parseVars == <<fileExists, fileBytes, declN, origHeader, origTris, pos, iostate,
               header_, polygons_, valid, size, pi, pk, pc>>
sliceVars == <<entry, args, polygons, plane, res, idx, emitted, spc>>
vars == <<parseVars, sliceVars>>

(***************************************************************************)
(* Bounds of the model.                                                    *)
(***************************************************************************)
MaxN == 2          \* triangle counts a file declares: 0..MaxN
MaxExtra == 2      \* bytes that may follow the last record
MaxSeed == 1       \* header and triangle contents are drawn from seeds 0..MaxSeed
MaxCoord == 1      \* slicer vertices: x in 0..MaxCoord, y and z in 0..1
MaxOff == 2        \* plane offsets d: -MaxOff..1

(***************************************************************************)
(* Layout constants of the reader.                                         *)
(***************************************************************************)
HeaderLen == 80
CountLen == 4
FloatLen == 4
FloatsPerPolygon == 12
AttrLen == 2

RecordLen == FloatsPerPolygon * FloatLen + AttrLen
FullLen(n) == HeaderLen + CountLen + RecordLen * n

(***************************************************************************)
(* Byte strings.                                                           *)
(***************************************************************************)
RECURSIVE Concat(_)
Concat(ss) == IF ss = <<>> THEN <<>> ELSE Head(ss) \o Concat(Tail(ss))

Zeros(n) == [j \in 1..n |-> 0]

\* The 4 bytes of a 32-bit value as the writer of a file lays them out
\* (little-endian), and what read() into a uint32_t or a float makes of 4 bytes
\* on the little-endian host the code is built for.
Encode32(v) == <<v % 256, (v \div 256) % 256, (v \div 65536) % 256, (v \div 16777216) % 256>>
Decode32(bs) == bs[1] + 256 * bs[2] + 65536 * bs[3] + 16777216 * bs[4]

\* The order in which the constructor reads the 12 floats of a record.
FieldOrderSwapped ==
    << <<"normal", "x">>, <<"normal", "y">>, <<"normal", "z">>,
       <<"b", "x">>, <<"b", "y">>, <<"b", "z">>,
       <<"a", "x">>, <<"a", "y">>, <<"a", "z">>,
       <<"c", "x">>, <<"c", "y">>, <<"c", "z">> >>
FieldOrder ==
    << <<"normal", "x">>, <<"normal", "y">>, <<"normal", "z">>,
       <<"a", "x">>, <<"a", "y">>, <<"a", "z">>,
       <<"b", "x">>, <<"b", "y">>, <<"b", "z">>,
       <<"c", "x">>, <<"c", "y">>, <<"c", "z">> >>

\* A value-initialised STLPolygon (what vector::resize creates).
ZeroVec == [x |-> 0, y |-> 0, z |-> 0]
ZeroPolygon == [normal |-> ZeroVec, a |-> ZeroVec, b |-> ZeroVec, c |-> ZeroVec]

(***************************************************************************)
(* The files the reader is run on: the serialisation of a header and of    *)
(* declN triangles, followed by MaxExtra bytes, cut at any length.         *)
(***************************************************************************)
HeaderOf(h) == [j \in 1..HeaderLen |-> (j * (h + 3)) % 256]
BitsOf(s, k) == 1065353216 + (65536 * (s + 1)) + (256 * k) + ((3 * k + s) % 256)
BitsVec(s, k) == [x |-> BitsOf(s, k), y |-> BitsOf(s, k + 1), z |-> BitsOf(s, k + 2)]
TriangleOf(s) ==
    [normal |-> BitsVec(s, 1), a |-> BitsVec(s, 4), b |-> BitsVec(s, 7), c |-> BitsVec(s, 10)]
WriteVec(v) == Encode32(v.x) \o Encode32(v.y) \o Encode32(v.z)
WriteRecord(t) ==
    WriteVec(t.normal) \o WriteVec(t.a) \o WriteVec(t.b) \o WriteVec(t.c) \o <<7, 9>>
Serialize(hdr, tris) ==
    hdr \o Encode32(Len(tris)) \o Concat([j \in 1..Len(tris) |-> WriteRecord(tris[j])])
Trailing == [j \in 1..MaxExtra |-> 200 + j]

(***************************************************************************)
(* std::istream, as far as the constructor uses it.                        *)
(***************************************************************************)
\* stlfile.exceptions(failbit | badbit)
ExceptionsNone == {}
Exceptions == {"failbit", "badbit"}

Throws(st) == st \cap Exceptions # {}

\* istream::read(buf, n): the sentry fails on a stream that is not good();
\* fewer than n bytes left sets eofbit and failbit.
IstreamRead(n) ==
    IF iostate # {}
    THEN [st |-> iostate \cup {"failbit"}, got |-> <<>>, pos |-> pos]
    ELSE IF Len(fileBytes) - pos >= n
    THEN [st |-> iostate, got |-> SubSeq(fileBytes, pos + 1, pos + n), pos |-> pos + n]
    ELSE [st |-> {"eofbit", "failbit"},
          got |-> SubSeq(fileBytes, pos + 1, Len(fileBytes)),
          pos |-> Len(fileBytes)]

\* istream::ignore(n): the sentry fails on a stream that is not good();
\* the end of the file met before n bytes are skipped sets eofbit alone.
IstreamIgnore(n) ==
    IF iostate # {}
    THEN [st |-> iostate \cup {"failbit"}, pos |-> pos]
    ELSE IF Len(fileBytes) - pos >= n
    THEN [st |-> iostate, pos |-> pos + n]
    ELSE [st |-> {"eofbit"}, pos |-> Len(fileBytes)]

\* What a buffer of n bytes, zero before the call, holds after the read.
Filled(got, n) == got \o Zeros(n - Len(got))

(***************************************************************************)
(* STLReader::STLReader(path)                                              *)
(***************************************************************************)
SliceIdle ==
    /\ entry = "none" /\ args = <<>> /\ polygons = <<>> /\ plane = <<>>
    /\ res = <<>> /\ idx = 0 /\ emitted = <<>> /\ spc = "idle"

InitParse ==
    /\ fileExists \in BOOLEAN
    /\ declN \in 0..MaxN
    /\ \E h \in 0..MaxSeed : origHeader = HeaderOf(h)
    /\ \E ss \in [1..declN -> 0..MaxSeed] : origTris = [j \in 1..declN |-> TriangleOf(ss[j])]
    /\ \E L \in 0..(FullLen(declN) + MaxExtra) :
          fileBytes = IF fileExists
                      THEN SubSeq(Serialize(origHeader, origTris) \o Trailing, 1, L)
                      ELSE <<>>
    /\ pos = 0 /\ iostate = {}
    /\ header_ = <<>> /\ polygons_ = <<>> /\ valid = FALSE
    /\ size = 0 /\ pi = 0 /\ pk = 0
    /\ pc = "open"
    /\ SliceIdle

\* lines 61-65: the file cannot be opened: report and return.
OpenFail ==
    /\ pc = "open" /\ ~fileExists
    /\ pc' = "done"
    /\ UNCHANGED <<fileExists, fileBytes, declN, origHeader, origTris, pos, iostate,
                   header_, polygons_, valid, size, pi, pk>>
    /\ UNCHANGED sliceVars

\* lines 61-66: the file is open; exceptions are enabled.
OpenOk ==
    /\ pc = "open" /\ fileExists
    /\ pc' = "header"
    /\ UNCHANGED <<fileExists, fileBytes, declN, origHeader, origTris, pos, iostate,
                   header_, polygons_, valid, size, pi, pk>>
    /\ UNCHANGED sliceVars

\* lines 68-69: header_.resize(80); stlfile.read(header_.data(), 80)
ReadHeader ==
    /\ pc = "header"
    /\ LET r == IstreamRead(HeaderLen) IN
         /\ pos' = r.pos /\ iostate' = r.st
         /\ header_' = Filled(r.got, HeaderLen)
         /\ pc' = IF Throws(r.st) THEN "thrown" ELSE "count"
    /\ UNCHANGED <<fileExists, fileBytes, declN, origHeader, origTris,
                   polygons_, valid, size, pi, pk>>
    /\ UNCHANGED sliceVars

\* lines 70-72: read size; polygons_.resize(size).  A read that fails without
\* throwing leaves size uninitialised: any value.
\* (Files declare at most MaxN triangles, so the allocation of resize never
\* fails here; std::bad_alloc for a huge count is outside the model.)
ReadCount ==
    /\ pc = "count"
    /\ LET r == IstreamRead(CountLen) IN
         /\ pos' = r.pos /\ iostate' = r.st
         /\ IF Throws(r.st)
            THEN /\ pc' = "thrown"
                 /\ UNCHANGED <<size, polygons_, pi, pk>>
            ELSE /\ IF Len(r.got) = CountLen
                    THEN size' = Decode32(r.got)
                    ELSE size' \in 0..MaxN
                 /\ polygons_' = [j \in 1..size' |-> ZeroPolygon]
                 /\ pi' = 1 /\ pk' = 1
                 /\ pc' = IF size' = 0 THEN "return" ELSE "record"
    /\ UNCHANGED <<fileExists, fileBytes, declN, origHeader, origTris, header_, valid>>
    /\ UNCHANGED sliceVars

\* lines 73-101: one stlfile.read of 4 bytes into the pk-th float of polygon pi.
ReadFloat ==
    /\ pc = "record"
    /\ LET r == IstreamRead(FloatLen)
           f == FieldOrder[pk]
       IN
         /\ pos' = r.pos /\ iostate' = r.st
         /\ polygons_' = [polygons_ EXCEPT ![pi][f[1]][f[2]] =
                              IF Len(r.got) = FloatLen THEN Decode32(r.got) ELSE @]
         /\ IF Throws(r.st)
            THEN pc' = "thrown" /\ pk' = pk
            ELSE IF pk < FloatsPerPolygon
            THEN pc' = "record" /\ pk' = pk + 1
            ELSE pc' = "ignore" /\ pk' = pk
    /\ UNCHANGED <<fileExists, fileBytes, declN, origHeader, origTris,
                   header_, valid, size, pi>>
    /\ UNCHANGED sliceVars

\* line 102: stlfile.ignore(2), then the next polygon or the end of the loop.
Ignore ==
    /\ pc = "ignore"
    /\ LET r == IstreamIgnore(AttrLen) IN
         /\ pos' = r.pos /\ iostate' = r.st
         /\ IF Throws(r.st)
            THEN pc' = "thrown" /\ UNCHANGED <<pi, pk>>
            ELSE IF pi < size
            THEN pc' = "record" /\ pi' = pi + 1 /\ pk' = 1
            ELSE pc' = "return" /\ UNCHANGED <<pi, pk>>
    /\ UNCHANGED <<fileExists, fileBytes, declN, origHeader, origTris,
                   header_, polygons_, valid, size>>
    /\ UNCHANGED sliceVars

\* line 105: valid = true; the constructor returns.
Return ==
    /\ pc = "return"
    /\ valid' = TRUE
    /\ pc' = "done"
    /\ UNCHANGED <<fileExists, fileBytes, declN, origHeader, origTris, pos, iostate,
                   header_, polygons_, size, pi, pk>>
    /\ UNCHANGED sliceVars

NextParse == OpenFail \/ OpenOk \/ ReadHeader \/ ReadCount \/ ReadFloat \/ Ignore \/ Return

SpecParse == InitParse /\ [][NextParse]_vars

\* The object exists for the caller exactly when the constructor returned;
\* an exception leaving the constructor leaves no object behind.
Observable == pc = "done"
Truncated == fileExists /\ Len(fileBytes) < FullLen(declN)
Finished == pc \in {"done", "thrown"}

(***************************************************************************)
(* Claims about the reader (checked under SpecParse).                      *)
(***************************************************************************)

\* C1 (as claimed): whenever the file ends before all 84 + 50*N bytes of its
\* layout, wherever the cut falls, the constructor ends by throwing (the
\* truncated-data error) and never by returning with valid = true.
C1_TruncationAlwaysFails ==
    (Finished /\ Truncated) => (pc = "thrown" /\ ~valid)

\* C2: the meshes a caller can observe (the constructor returned) are either
\* valid with all declared triangles decoded, or invalid with an empty
\* triangle collection; a path that cannot be opened gives the latter.
C2_NoPartialMesh ==
    Observable =>
        /\ \/ valid /\ size = declN /\ polygons_ = origTris
           \/ ~valid /\ polygons_ = <<>>
        /\ ~fileExists => (~valid /\ polygons_ = <<>>)

\* C2 witness: a parse of a file with triangles has returned a valid mesh.
C2_Witness == Observable /\ valid /\ Len(polygons_) = MaxN /\ MaxN > 0

\* C3: round trip.  Parsing a complete serialisation of a header and N
\* triangles, whatever follows the last record, returns valid = true, the
\* same 80 header bytes and the same N triangles in file order.
C3_RoundTrip ==
    (Finished /\ fileExists /\ ~Truncated) =>
        /\ pc = "done" /\ valid
        /\ header_ = origHeader /\ Len(header_) = HeaderLen
        /\ Len(polygons_) = declN /\ polygons_ = origTris

\* C3 witness: a complete file with trailing bytes and at least 2 triangles,
\* the second different from the first, has been parsed.
C3_Witness ==
    /\ pc = "done" /\ fileExists /\ Len(fileBytes) > FullLen(declN)
    /\ declN >= 2 /\ origTris[1] # origTris[2] /\ valid


(***************************************************************************)
(* float arithmetic of the slicer, exact: a finite value is <<n, d>> with  *)
(* d > 0 in lowest terms; x/0 is an infinity <<1, 0>> or <<-1, 0>> (the    *)
(* sign of a zero is not tracked: both infinities fail the test for        *)
(* [0, 1) alike), 0/0 is NaN <<0, 0>>.  The slicer does arithmetic on      *)
(* finite values only: a quotient is only compared, unless it is in [0,1). *)
(***************************************************************************)
RECURSIVE Gcd(_, _)
Gcd(m, n) == IF n = 0 THEN m ELSE Gcd(n, m % n)
Abs(n) == IF n < 0 THEN -n ELSE n
Sgn(n) == IF n < 0 THEN -1 ELSE IF n = 0 THEN 0 ELSE 1

NaN == <<0, 0>>
Norm(n, d) ==
    IF d = 1 THEN <<n, 1>>
    ELSE LET g == Gcd(Abs(n), Abs(d)) IN <<(Sgn(d) * n) \div g, Abs(d) \div g>>
F(n) == <<n, 1>>
Zero == F(0)
One == F(1)
Half == <<1, 2>>
IsFinite(x) == x[2] # 0

FAdd(x, y) == IF IsFinite(x) /\ IsFinite(y) THEN Norm(x[1] * y[2] + y[1] * x[2], x[2] * y[2]) ELSE NaN
FNeg(x) == <<-x[1], x[2]>>
FSub(x, y) == FAdd(x, FNeg(y))
FMul(x, y) == IF IsFinite(x) /\ IsFinite(y) THEN Norm(x[1] * y[1], x[2] * y[2]) ELSE NaN
FDiv(x, y) ==
    IF ~(IsFinite(x) /\ IsFinite(y)) THEN NaN
    ELSE IF y[1] = 0 THEN <<Sgn(x[1]), 0>>
    ELSE Norm(x[1] * y[2], x[2] * y[1])
\* comparisons: false when an operand is NaN
FLe(x, y) == x # NaN /\ y # NaN /\ x[1] * y[2] <= y[1] * x[2]
FLt(x, y) == x # NaN /\ y # NaN /\ x[1] * y[2] < y[1] * x[2]

(***************************************************************************)
(* internal::segment_plane_intersection, internal::point_on_line           *)
(***************************************************************************)
segment_plane_intersection_from_q(segment, a, b, c, d) ==
    LET x1 == segment.p.x  y1 == segment.p.y  z1 == segment.p.z
        x2 == segment.q.x  y2 == segment.q.y  z2 == segment.q.z
    IN FDiv(FNeg(FAdd(FAdd(FAdd(FMul(a, x2), FMul(b, y2)), FMul(c, z2)), d)),
            FAdd(FAdd(FMul(a, FSub(x2, x1)), FMul(b, FSub(y2, y1))), FMul(c, FSub(z2, z1))))
segment_plane_intersection(segment, a, b, c, d) ==
    LET x1 == segment.p.x  y1 == segment.p.y  z1 == segment.p.z
        x2 == segment.q.x  y2 == segment.q.y  z2 == segment.q.z
    IN FDiv(FNeg(FAdd(FAdd(FAdd(FMul(a, x1), FMul(b, y1)), FMul(c, z1)), d)),
            FAdd(FAdd(FMul(a, FSub(x2, x1)), FMul(b, FSub(y2, y1))), FMul(c, FSub(z2, z1))))

point_on_line_swapped(segment, t) ==
    LET x1 == segment.p.x  y1 == segment.p.y  z1 == segment.p.z
        x2 == segment.q.x  y2 == segment.q.y  z2 == segment.q.z
    IN [x |-> FAdd(FMul(t, x1), FMul(FSub(One, t), x2)),
        y |-> FAdd(FMul(t, y1), FMul(FSub(One, t), y2)),
        z |-> FAdd(FMul(t, z1), FMul(FSub(One, t), z2))]
point_on_line(segment, t) ==
    LET x1 == segment.p.x  y1 == segment.p.y  z1 == segment.p.z
        x2 == segment.q.x  y2 == segment.q.y  z2 == segment.q.z
    IN [x |-> FAdd(FMul(FSub(One, t), x1), FMul(t, x2)),
        y |-> FAdd(FMul(FSub(One, t), y1), FMul(t, y2)),
        z |-> FAdd(FMul(FSub(One, t), z1), FMul(t, z2))]

(***************************************************************************)
(* slice_polygons_at                                                       *)
(***************************************************************************)
\* the test 0 <= s && s < 1 of lines 213, 217, 221
crosses_open(t) == FLt(Zero, t) /\ FLt(t, One)
crosses_closed(t) == FLe(Zero, t) /\ FLe(t, One)
crosses_unbounded_below(t) == FLt(t, One)
crosses(t) == FLe(Zero, t) /\ FLt(t, One)

Seg(p, q) == [p |-> p, q |-> q]

\* lines 208-225: the body of the loop for one polygon; what it pushes onto res.
slice_polygon_third_swapped(polygon, a, b, c, d) ==
    LET p == polygon.a  q == polygon.b  r == polygon.c
        s == segment_plane_intersection(Seg(p, q), a, b, c, d)
        t == segment_plane_intersection(Seg(q, r), a, b, c, d)
        u == segment_plane_intersection(Seg(r, p), a, b, c, d)
    IN IF crosses(s) /\ crosses(t)
       THEN << Seg(point_on_line(Seg(p, q), s), point_on_line(Seg(q, r), t)) >>
       ELSE IF crosses(t) /\ crosses(u)
       THEN << Seg(point_on_line(Seg(q, r), t), point_on_line(Seg(r, p), u)) >>
       ELSE IF crosses(u) /\ crosses(s)
       THEN << Seg(point_on_line(Seg(p, q), s), point_on_line(Seg(r, p), u)) >>
       ELSE <<>>
slice_polygon(polygon, a, b, c, d) ==
    LET p == polygon.a  q == polygon.b  r == polygon.c
        s == segment_plane_intersection(Seg(p, q), a, b, c, d)
        t == segment_plane_intersection(Seg(q, r), a, b, c, d)
        u == segment_plane_intersection(Seg(r, p), a, b, c, d)
    IN IF crosses(s) /\ crosses(t)
       THEN << Seg(point_on_line(Seg(p, q), s), point_on_line(Seg(q, r), t)) >>
       ELSE IF crosses(t) /\ crosses(u)
       THEN << Seg(point_on_line(Seg(q, r), t), point_on_line(Seg(r, p), u)) >>
       ELSE IF crosses(u) /\ crosses(s)
       THEN << Seg(point_on_line(Seg(r, p), u), point_on_line(Seg(p, q), s)) >>
       ELSE <<>>

\* the coefficients the axis wrappers pass to slice_polygons_at
Plane(a, b, c, d) == [a |-> a, b |-> b, c |-> c, d |-> d]
slice_polygons_at_x(x) == Plane(One, Zero, Zero, FNeg(x))
slice_polygons_at_y(y) == Plane(Zero, One, Zero, FNeg(y))
slice_polygons_at_z_unnegated(z) == Plane(Zero, Zero, One, z)
slice_polygons_at_z(z) == Plane(Zero, Zero, One, FNeg(z))

(***************************************************************************)
(* The inputs of the slicer.                                               *)
(***************************************************************************)
Vec(x, y, z) == [x |-> x, y |-> y, z |-> z]
Polygon(n, a, b, c) == [normal |-> n, a |-> a, b |-> b, c |-> c]
Rot(T) == Polygon(T.normal, T.b, T.c, T.a)

\* triangles on a small lattice, degenerate ones included; the list handed to
\* the slicer holds a triangle in each of its three cyclic vertex orders
Points == {Vec(F(i), F(j), F(k)) : i \in 0..MaxCoord, j \in 0..1, k \in 0..1}
Normals == {<<1, 1, 1>>, <<1, -1, 0>>, <<2, 1, -2>>, <<0, 0, 0>>}
Halves == {<<k, 2>> : k \in {j \in 0..(2 * MaxCoord) : j % 2 = 1}} \cup {F(k) : k \in 0..MaxCoord}
ListOf(T) == <<T, Rot(T), Rot(Rot(T))>>

\* the unit cube, each face split in two along one of its diagonals
CubeFaces ==
    << << <<0,0,0>>, <<0,1,0>>, <<1,1,0>>, <<1,0,0>> >>,
       << <<0,0,1>>, <<1,0,1>>, <<1,1,1>>, <<0,1,1>> >>,
       << <<0,0,0>>, <<1,0,0>>, <<1,0,1>>, <<0,0,1>> >>,
       << <<0,1,0>>, <<0,1,1>>, <<1,1,1>>, <<1,1,0>> >>,
       << <<0,0,0>>, <<0,0,1>>, <<0,1,1>>, <<0,1,0>> >>,
       << <<1,0,0>>, <<1,1,0>>, <<1,1,1>>, <<1,0,1>> >> >>
CubeNormals ==
    << <<0,0,-1>>, <<0,0,1>>, <<0,-1,0>>, <<0,1,0>>, <<-1,0,0>>, <<1,0,0>> >>
IntVec(v) == Vec(F(v[1]), F(v[2]), F(v[3]))
\* triangle h (1 or 2) of face f, split along the diagonal dg (0: corners 1-3, 1: corners 2-4)
CubeTriangle(f, h, dg) ==
    LET k == CubeFaces[f]
        n == IntVec(CubeNormals[f])
    IN IF dg = 0
       THEN IF h = 1 THEN Polygon(n, IntVec(k[1]), IntVec(k[2]), IntVec(k[3]))
                     ELSE Polygon(n, IntVec(k[1]), IntVec(k[3]), IntVec(k[4]))
       ELSE IF h = 1 THEN Polygon(n, IntVec(k[2]), IntVec(k[3]), IntVec(k[4]))
                     ELSE Polygon(n, IntVec(k[2]), IntVec(k[4]), IntVec(k[1]))
CubeMesh(dgs) == [m \in 1..12 |-> CubeTriangle((m + 1) \div 2, 2 - (m % 2), dgs[(m + 1) \div 2])]
CubeMeshes == {CubeMesh(dgs) : dgs \in [1..6 -> 0..1]}

ParseIdle ==
    /\ fileExists = FALSE /\ fileBytes = <<>> /\ declN = 0
    /\ origHeader = <<>> /\ origTris = <<>> /\ pos = 0 /\ iostate = {}
    /\ header_ = <<>> /\ polygons_ = <<>> /\ valid = FALSE
    /\ size = 0 /\ pi = 0 /\ pk = 0 /\ pc = "idle"

InitSlice ==
    /\ \/ /\ entry = "slice_polygons_at"
          /\ \E n \in Normals, d \in (-MaxOff)..1 : args = <<F(n[1]), F(n[2]), F(n[3]), F(d)>>
          /\ \E p \in Points, q \in Points, r \in Points :
                polygons = ListOf(Polygon(Vec(Zero, Zero, Zero), p, q, r))
       \/ /\ entry \in {"slice_polygons_at_x", "slice_polygons_at_y", "slice_polygons_at_z"}
          /\ \E v \in Halves : args = <<v>>
          /\ \E p \in Points, q \in Points, r \in Points :
                polygons = ListOf(Polygon(Vec(Zero, Zero, Zero), p, q, r))
       \/ /\ entry = "slice_polygons_at_z"
          /\ args = <<Half>>
          /\ polygons \in CubeMeshes
    /\ plane = <<>> /\ res = <<>> /\ idx = 0 /\ emitted = <<>>
    /\ spc = "call"
    /\ ParseIdle

\* lines 203-207: slice_polygons_at is entered with a, b, c, d; res is empty.
Enter(pl) ==
    /\ plane' = pl
    /\ res' = <<>> /\ idx' = 1 /\ emitted' = <<>>
    /\ spc' = "loop"
    /\ UNCHANGED <<entry, args, polygons>>
    /\ UNCHANGED parseVars

CallAt ==
    /\ spc = "call" /\ entry = "slice_polygons_at"
    /\ Enter(Plane(args[1], args[2], args[3], args[4]))

CallAtX ==
    /\ spc = "call" /\ entry = "slice_polygons_at_x"
    /\ Enter(slice_polygons_at_x(args[1]))

CallAtY ==
    /\ spc = "call" /\ entry = "slice_polygons_at_y"
    /\ Enter(slice_polygons_at_y(args[1]))

CallAtZ ==
    /\ spc = "call" /\ entry = "slice_polygons_at_z"
    /\ Enter(slice_polygons_at_z(args[1]))

\* lines 208-226: one iteration of the loop over polygons.
Iterate ==
    /\ spc = "loop" /\ idx <= Len(polygons)
    /\ LET out == slice_polygon(polygons[idx], plane.a, plane.b, plane.c, plane.d) IN
         /\ res' = res \o out
         /\ emitted' = Append(emitted, out)
    /\ idx' = idx + 1
    /\ UNCHANGED <<entry, args, polygons, plane, spc>>
    /\ UNCHANGED parseVars

\* line 227: return res.
SliceReturn ==
    /\ spc = "loop" /\ idx > Len(polygons)
    /\ spc' = "done"
    /\ UNCHANGED <<entry, args, polygons, plane, res, idx, emitted>>
    /\ UNCHANGED parseVars

NextSlice == CallAt \/ CallAtX \/ CallAtY \/ CallAtZ \/ Iterate \/ SliceReturn

SpecSlice == InitSlice /\ [][NextSlice]_vars

(***************************************************************************)
(* Vocabulary of the claims about the slicer.  A triangle's vertices are   *)
(* numbered 1 (p), 2 (q), 3 (r); edge j runs from vertex j to vertex       *)
(* Nxt(j): edge 1 is p->q, edge 2 is q->r, edge 3 is r->p.                 *)
(***************************************************************************)
Nxt(j) == (j % 3) + 1
Prv(j) == ((j + 1) % 3) + 1
Vtx(T, j) == <<T.a, T.b, T.c>>[j]
EdgeOf(T, j) == Seg(Vtx(T, j), Vtx(T, Nxt(j)))
\* the value the slicer computes for edge j of T under the plane of the call
TOf(T, j) == segment_plane_intersection(EdgeOf(T, j), plane.a, plane.b, plane.c, plane.d)
\* a*x + b*y + c*z + d
PlaneVal(v) ==
    FAdd(FAdd(FAdd(FMul(plane.a, v.x), FMul(plane.b, v.y)), FMul(plane.c, v.z)), plane.d)
OnPlane(v) == PlaneVal(v) = Zero
SideOf(v) == Sgn(PlaneVal(v)[1])
\* t in [0, 1), stated on the fraction itself
InHalfOpen(t) == t[2] > 0 /\ 0 <= t[1] /\ t[1] < t[2]
\* (1 - t) * u + t * v
Lerp(u, v, t) == FAdd(FMul(FSub(One, t), u), FMul(t, v))
LerpVec(e, t) == Vec(Lerp(e.p.x, e.q.x, t), Lerp(e.p.y, e.q.y, t), Lerp(e.p.z, e.q.z, t))
\* the iterations of the loop that have run
Processed == IF spc \in {"loop", "done"} THEN 1..(idx - 1) ELSE {}
\* the iteration that has just run: emitted only grows, so a property of every
\* iteration is checked on each in the state that iteration leaves
JustRun == IF spc = "loop" /\ idx > 1 THEN {idx - 1} ELSE {}
\* pt lies on edge e, its end vertex excluded
Params(pt, e) ==
    {FDiv(FSub(pt[c], e.p[c]), FSub(e.q[c], e.p[c])) : c \in {c \in {"x", "y", "z"} : e.p[c] # e.q[c]}}
OnEdge(pt, e) == \E t \in Params(pt, e) : InHalfOpen(t) /\ pt = LerpVec(e, t)
\* vertex j of T is on the plane and the other two are strictly on opposite
\* sides (sign -1) or strictly on the same side (sign 1)
OneOnPlane(T, j, sign) ==
    /\ OnPlane(Vtx(T, j))
    /\ SideOf(Vtx(T, Nxt(j))) * SideOf(Vtx(T, Prv(j))) = sign
IsCubeCall ==
    /\ entry = "slice_polygons_at_z" /\ args = <<Half>>
    /\ Len(polygons) = 12 /\ polygons \in CubeMeshes

(***************************************************************************)
(* Claims about the slicer (checked under SpecSlice).                      *)
(***************************************************************************)

\* C4 (as claimed): slicing the unit cube of 12 triangles (two per face) at
\* z = 0.5 with slice_polygons_at_z returns exactly 4 segments.
C4_CubeFourSegments ==
    (spc = "done" /\ IsCubeCall) => Len(res) = 4

\* C4 (amended): slicing the unit cube of 12 triangles (two per face) at
\* z = 0.5 with slice_polygons_at_z returns exactly 8 segments: one for each
\* of the 8 triangles of the 4 side faces, none for the bottom and top faces,
\* every endpoint at height 0.5 on the boundary of the unit square.
C4_CubeEightSegments ==
    (spc = "done" /\ IsCubeCall) =>
        /\ Len(res) = 8
        /\ \A i \in 1..4 : emitted[i] = <<>>
        /\ \A i \in 5..12 : Len(emitted[i]) = 1
        /\ \A i \in 1..Len(res) : \A e \in {res[i].p, res[i].q} :
              /\ e.z = Half
              /\ e.x \in {Zero, Half, One} /\ e.y \in {Zero, Half, One}
              /\ e.x \in {Zero, One} \/ e.y \in {Zero, One}

\* C4 witness: a call on a cube mesh has returned.
C4_Witness == spc = "done" /\ IsCubeCall /\ Len(res) = 8

\* C5: a triangle with one vertex on the plane (in any of the positions a, b,
\* c) and the other two strictly on opposite sides yields exactly one segment,
\* one of whose endpoints equals the on-plane vertex.
C5_OppositeSides ==
    \A i \in JustRun : \A j \in 1..3 :
        OneOnPlane(polygons[i], j, -1) =>
            /\ Len(emitted[i]) = 1
            /\ emitted[i][1].p = Vtx(polygons[i], j) \/ emitted[i][1].q = Vtx(polygons[i], j)

\* C5 witness: such a triangle has been processed under an oblique plane, the
\* on-plane vertex in position c.
C5_Witness ==
    /\ spc = "done" /\ entry = "slice_polygons_at"
    /\ \E i \in Processed : OneOnPlane(polygons[i], 3, -1) /\ Len(emitted[i]) = 1

\* C6: a triangle with one vertex on the plane (in any position) and the other
\* two strictly on the same side has exactly one edge with t in [0, 1) and
\* yields no segment.
C6_SameSide ==
    \A i \in JustRun : \A j \in 1..3 :
        OneOnPlane(polygons[i], j, 1) =>
            /\ emitted[i] = <<>>
            /\ Cardinality({e \in 1..3 : InHalfOpen(TOf(polygons[i], e))}) = 1

\* C6 witness: such a triangle has been processed, the on-plane vertex in position b.
C6_Witness ==
    /\ spc = "done"
    /\ \E i \in Processed : OneOnPlane(polygons[i], 2, 1) /\ emitted[i] = <<>>

\* C7 (as claimed): of the edge that starts at a vertex lying on the plane and
\* the edge that ends at it, exactly one has t in [0, 1), also when a second
\* vertex lies on the plane.
C7_OnPlaneVertexExactlyOneEdge ==
    \A i \in JustRun : \A j \in 1..3 :
        OnPlane(Vtx(polygons[i], j)) =>
            (InHalfOpen(TOf(polygons[i], j)) # InHalfOpen(TOf(polygons[i], Prv(j))))

\* C7 (amended): for a vertex lying on the plane, the edge that ends at it
\* never has t in [0, 1), and the edge that starts at it has t in [0, 1)
\* exactly when the vertex that edge ends at is off the plane.  So the vertex
\* is attributed to exactly one adjacent edge when the next vertex is off the
\* plane, and to none when the next vertex lies on the plane too.
C7_OnPlaneVertexAttribution ==
    \A i \in JustRun : \A j \in 1..3 :
        OnPlane(Vtx(polygons[i], j)) =>
            /\ ~InHalfOpen(TOf(polygons[i], Prv(j)))
            /\ InHalfOpen(TOf(polygons[i], j)) <=> ~OnPlane(Vtx(polygons[i], Nxt(j)))

\* C7 witness: a processed triangle with vertex a on the plane and attributed
\* to its edge a->b, and another with a and b on the plane and c off it.
C7_Witness ==
    /\ spc = "done"
    /\ \E i \in Processed :
          OnPlane(polygons[i].a) /\ InHalfOpen(TOf(polygons[i], 1))
    /\ \E i \in Processed :
          OnPlane(polygons[i].a) /\ OnPlane(polygons[i].b) /\ ~OnPlane(polygons[i].c)

\* what the claim C8 says a triangle yields
C8_Expected(T) ==
    LET Q == {k \in 1..3 : InHalfOpen(TOf(T, k)) /\ InHalfOpen(TOf(T, Nxt(k)))} IN
    IF Q = {} THEN <<>>
    ELSE LET k == CHOOSE m \in Q : \A n \in Q : m <= n IN
         << Seg(LerpVec(EdgeOf(T, k), TOf(T, k)),
                LerpVec(EdgeOf(T, Nxt(k)), TOf(T, Nxt(k)))) >>
\* C8: each triangle yields at most one segment: none when no pair of edges
\* both have t in [0, 1), otherwise the segment of the first pair in the order
\* (p->q, q->r), (q->r, r->p), (r->p, p->q) whose edges both do, its endpoints
\* (1-t)*start + t*end on those two edges in the pair's order; res holds what
\* the iterations yielded, in order, so never more segments than triangles.
C8_AtMostOneSegment ==
    /\ \A i \in JustRun : Len(emitted[i]) <= 1 /\ emitted[i] = C8_Expected(polygons[i])
    /\ spc \in {"loop", "done"} =>
          /\ res = Concat(emitted)
          /\ Len(res) <= idx - 1
          /\ Len(res) <= Len(polygons)

\* C8 witness: a call has returned in which a triangle yielded the segment of
\* the third pair (r->p, p->q) and another yielded nothing.
C8_Witness ==
    /\ spc = "done"
    /\ \E i \in Processed :
          /\ Len(emitted[i]) = 1
          /\ ~InHalfOpen(TOf(polygons[i], 2))
          /\ emitted[i][1].p # emitted[i][1].q
    /\ \E i \in Processed : emitted[i] = <<>>

\* the pairs of edges, in the slicer's numbering, that both pass its test
C9_Pairs(T) == {k \in 1..3 : crosses(TOf(T, k)) /\ crosses(TOf(T, Nxt(k)))}
\* C9: the three edges of a triangle never all pass the test for [0, 1), so at
\* most one of the three pairs the slicer tests qualifies.
C9_NeverAllThree ==
    \A i \in JustRun :
        /\ ~(\A e \in 1..3 : crosses(TOf(polygons[i], e)))
        /\ Cardinality(C9_Pairs(polygons[i])) <= 1

\* C9 witness: a processed triangle with a vertex on the plane and the two
\* others on opposite sides: two edges pass the test, the third has t = 1.
C9_Witness ==
    /\ spc = "done"
    /\ \E i \in Processed :
          /\ OneOnPlane(polygons[i], 1, -1)
          /\ Cardinality(C9_Pairs(polygons[i])) = 1
          /\ TOf(polygons[i], 3) = One

\* C10: both endpoints of every emitted segment lie on the plane and on an
\* edge of the triangle that yielded it, the edge's end vertex excluded.
C10_EndpointsOnPlaneAndEdge ==
    \A i \in JustRun : \A m \in 1..Len(emitted[i]) :
        \A e \in {emitted[i][m].p, emitted[i][m].q} :
            /\ PlaneVal(e) = Zero
            /\ \E k \in 1..3 : OnEdge(e, EdgeOf(polygons[i], k))

\* C10 witness: a segment with an endpoint strictly inside an edge, under an
\* oblique plane.
C10_Witness ==
    /\ spc = "done" /\ entry = "slice_polygons_at"
    /\ \E i \in Processed :
          /\ Len(emitted[i]) = 1
          /\ emitted[i][1].p \notin {polygons[i].a, polygons[i].b, polygons[i].c}

=============================================================================
